---- MODULE Spec2Model ----
(***************************************************************************)
(* Clipboard history service of vicinae: the capture-to-storage pipeline   *)
(* of ClipboardService (clipboard-service.cpp), the asynchronous key       *)
(* acquisition, and the removal operations.                                *)
(*                                                                         *)
(* Byte strings (QByteArray) are sequences of tokens.  A token stands for  *)
(* a run of bytes: "a" is ordinary text, "<b>" is an HTML tag, "http:" is  *)
(* a URL scheme prefix.  A ciphertext is the sequence <<"#enc", key>>      *)
(* followed by the plaintext tokens; no captured payload holds "#enc".     *)
(***************************************************************************)
EXTENDS Integers, Sequences, FiniteSets, TLC

\* ------------------------------------------------------------------ bounds

\* longest offer vector of one captured selection
MaxOffers == 2
\* how many persist transactions may commit (each draws two fresh UUIDs)
MaxInserts == 2
\* how many in-process getLocalEncryptionKey calls exist in SpecKey
MaxCallers == 3

\* ------------------------------------------------------------------ values

CONCEALED_MIME_TYPE == "vicinae/concealed"

MimeTypes == {"text/plain", "image/png", "text/html", CONCEALED_MIME_TYPE, "application/json"}

Payloads == {<<>>, <<"http:", "a">>, <<"<b>", "http:", "a">>}

Offers == [mimeType : MimeTypes, data : Payloads]

RECURSIVE SeqsUpTo(_, _)
SeqsUpTo(S, n) ==
  IF n = 0 THEN {<<>>}
  ELSE LET shorter == SeqsUpTo(S, n - 1)
       IN shorter \cup {Append(s, x) : s \in {t \in shorter : Len(t) = n - 1}, x \in S}

\* the selections the capture source may deliver
Captures == SeqsUpTo(Offers, MaxOffers)

NoKey == "none"
\* the key a previous run of the program left in the vault
OldKey == "K0"

NoId == 0

Min(a, b) == IF a < b THEN a ELSE b

\* the mime types the functions on offers are applied to, by their part up to
\* the slash
TextMimes == {"text/plain", "text/html", "text/uri-list", "text/svg", "text/_moz_htmlcontext"}
ImageMimes == {"image/png", "image/jpeg", "image/gif", "image/svg+xml"}
ApplicationMimes == {"application/json", "application/xml", "application/javascript",
                     "application/sql", "application/octet-stream"}

\* the mime type up to and including its slash
MimeMajor(m) ==
  CASE m \in TextMimes -> "text/"
    [] m \in ImageMimes -> "image/"
    [] m \in ApplicationMimes -> "application/"
    [] OTHER -> "vicinae/"

\* QString::startsWith(p) for a prefix p that ends at the slash
StartsWith(m, p) == MimeMajor(m) = p

HtmlTags == {"<b>"}
UrlSchemes == {"http:"}

VARIABLES
  m_monitoring,           \* ClipboardService::m_monitoring
  m_isEncryptionReady,    \* ClipboardService::m_isEncryptionReady
  m_localEncryptionKey,   \* ClipboardService::m_localEncryptionKey (NoKey: nullopt)
  vault,                  \* the keychain entry "clipboard-data-key" (NoKey: absent)
  keyCalls,               \* the getLocalEncryptionKey calls: caller -> job state
  selections,             \* table selections: id -> row
  offers,                 \* table offers: id -> row
  order,                  \* selection ids by recency, most recent first
  blobs,                  \* files of m_dataDir: offer id -> bytes
  uuids,                  \* persist transactions that committed fresh UUIDs
  last                    \* the last handler that ran, and what it emitted

vars == <<m_monitoring, m_isEncryptionReady, m_localEncryptionKey, vault, keyCalls,
          selections, offers, order, blobs, uuids, last>>

storeVars == <<selections, offers, order, blobs, uuids>>
keyVars == <<m_isEncryptionReady, m_localEncryptionKey, vault, keyCalls>>

\* ------------------------------------------------------------------ helpers

\* QCryptographicHash::hash(data, Md5).toHex(): a fingerprint of the bytes
\* (collisions are not modelled)
Md5Hex(data) == <<"md5:">> \o data

\* Crypto::AES256GCM::encrypt
Encrypt(data, key) == <<"#enc", key>> \o data

\* Crypto::AES256GCM::decrypt: the plaintext under the right key, nothing otherwise
Decrypt(data, key) ==
  IF Len(data) >= 2 /\ data[1] = "#enc" /\ data[2] = key
  THEN SubSeq(data, 3, Len(data))
  ELSE <<>>

\* QTextDocument::setHtml followed by toPlainText: the text without its markup
ToPlainText(data) == SelectSeq(data, LAMBDA t : t \notin HtmlTags)

\* QUrl::fromEncoded(data, StrictMode): isValid() and a non-empty scheme()
IsUrlWithScheme(data) ==
  /\ Len(data) >= 1
  /\ data[1] \in UrlSchemes
  /\ \A i \in 1..Len(data) : data[i] \notin HtmlTags

ApplicationTexts == {"application/json", "application/xml", "application/javascript",
                     "application/sql"}

\* a kind inference that tries the URL parse on text/html too
getKindHtmlParsed(offer) ==
  IF StartsWith(offer.mimeType, "image/") THEN "Image"
  ELSE IF StartsWith(offer.mimeType, "text/")
       THEN IF IsUrlWithScheme(ToPlainText(offer.data)) THEN "Link" ELSE "Text"
  ELSE IF StartsWith(offer.mimeType, "application/") /\ offer.mimeType \in ApplicationTexts
       THEN "Text"
  ELSE "Unknown"

getKind(offer) ==
  IF StartsWith(offer.mimeType, "image/") THEN "Image"
  ELSE IF StartsWith(offer.mimeType, "text/")
       THEN IF offer.mimeType = "text/html" THEN "Text"
            ELSE IF IsUrlWithScheme(offer.data) THEN "Link" ELSE "Text"
  ELSE IF StartsWith(offer.mimeType, "application/") /\ offer.mimeType \in ApplicationTexts
       THEN "Text"
  ELSE "Unknown"

\* enum SelectionPriority of getSelectionPreferredMimeType
Invalid == 0
Other == 1
HtmlText == 2
Text == 3
GenericImage == 4
ImageJpeg == 5
ImagePng == 6
ImageSvg == 7

\* offer.mimeType.startsWith("text/_moz_html")
StartsWithMozHtml(m) == m \in {"text/_moz_htmlcontext"}

\* the priority the loop of getSelectionPreferredMimeType gives a mime type
MimePriority(m) ==
  IF StartsWith(m, "text/")
  THEN IF m = "text/plain" THEN Text
       ELSE IF m = "text/html" THEN HtmlText
       ELSE IF m = "text/svg" THEN ImageSvg
       ELSE Text
  ELSE IF m = "image/jpeg" THEN ImageJpeg
  ELSE IF m = "image/png" THEN ImagePng
  ELSE IF m = "image/svg+xml" THEN ImageSvg
  ELSE Other

\* the loop over selection.offers from offer i on, with the best priority and
\* its mime type so far
RECURSIVE PreferredLoop(_, _, _, _)
PreferredLoop(v, i, priority, preferredMimeType) ==
  IF i > Len(v) THEN preferredMimeType
  ELSE IF StartsWithMozHtml(v[i].mimeType)
       THEN PreferredLoop(v, i + 1, priority, preferredMimeType)
  ELSE IF MimePriority(v[i].mimeType) > priority
       THEN PreferredLoop(v, i + 1, MimePriority(v[i].mimeType), v[i].mimeType)
  ELSE PreferredLoop(v, i + 1, priority, preferredMimeType)

\* QString ClipboardService::getSelectionPreferredMimeType(selection)
getSelectionPreferredMimeType(v) == PreferredLoop(v, 1, Invalid, "")

PreviewLength == 50

getOfferTextPreview(offer) ==
  IF StartsWith(offer.mimeType, "text/")
  THEN SubSeq(offer.data, 1, Min(Len(offer.data), PreviewLength))
  ELSE IF StartsWith(offer.mimeType, "image/") THEN <<"Image">>
  ELSE <<"Unnamed">>

\* an erase_if that erases nothing
EraseNothing(v) == v

\* std::erase_if(selection.offers, data.isEmpty())
EraseEmpty(v) == SelectSeq(v, LAMBDA o : o.data # <<>>)

Swap(v, i, j) == [v EXCEPT ![i] = v[j], ![j] = v[i]]

\* std::adjacent_find on equal mime types: the first index of an equal pair, or 0
AdjacentFind(v) ==
  LET hits == {i \in 1..(Len(v) - 1) : v[i].mimeType = v[i + 1].mimeType}
  IN IF hits = {} THEN 0 ELSE CHOOSE i \in hits : \A j \in hits : i <= j

\* the loop of std::unique: *++dest = std::move(*first); the move assignment of
\* QString and QByteArray swaps, so the displaced element lands at first
RECURSIVE UniqueLoop(_, _, _)
UniqueLoop(v, dest, first) ==
  IF first > Len(v) THEN v
  ELSE IF v[dest].mimeType # v[first].mimeType
       THEN UniqueLoop(Swap(v, dest + 1, first), dest + 1, first + 1)
       ELSE UniqueLoop(v, dest, first + 1)

\* std::ranges::unique(selection.offers, same mime type): the returned range is
\* dropped, so the vector keeps its length
Unique(v) ==
  LET i == AdjacentFind(v)
  IN IF i = 0 THEN v ELSE UniqueLoop(v, i, i + 2)

RECURSIVE SumSizes(_)
SumSizes(v) == IF v = <<>> THEN 0 ELSE Len(Head(v).data) + SumSizes(Tail(v))

isClearSelection(v) == SumSizes(v) = 0

isConcealed(v) == \E i \in 1..Len(v) : v[i].mimeType = CONCEALED_MIME_TYPE

\* std::ranges::find_if: the first index whose offer satisfies P, or 0
FindIf(v, P(_)) ==
  LET hits == {i \in 1..Len(v) : P(v[i])}
  IN IF hits = {} THEN 0 ELSE CHOOSE i \in hits : \A j \in hits : i <= j

\* ------------------------------------------------------------------ saveSelection

\* a gate that forgets the key readiness
GateOpenMonitoringOnly(monitoring, ready) == monitoring

\* the early return of saveSelection: monitoring on and key readiness resolved
GateOpen(monitoring, ready) == monitoring /\ ready

\* a choice that keeps the mime type and the bytes of the text/html offer
RepresentativeHtmlKept(v) ==
  LET plainIt == FindIf(v, LAMBDA o : o.mimeType = "text/plain")
      imageIt == FindIf(v, LAMBDA o : StartsWith(o.mimeType, "image/"))
      htmlIt == FindIf(v, LAMBDA o : o.mimeType = "text/html")
  IN IF plainIt # 0 THEN [found |-> TRUE, data |-> v[plainIt].data, mime |-> "text/plain"]
     ELSE IF imageIt # 0
          THEN [found |-> TRUE, data |-> v[imageIt].data, mime |-> v[imageIt].mimeType]
     ELSE IF htmlIt # 0
          THEN [found |-> TRUE, data |-> v[htmlIt].data, mime |-> "text/html"]
     ELSE [found |-> FALSE, data |-> <<>>, mime |-> ""]

\* a choice that looks for an image before it looks for plain text
RepresentativeImageFirst(v) ==
  LET plainIt == FindIf(v, LAMBDA o : o.mimeType = "text/plain")
      imageIt == FindIf(v, LAMBDA o : StartsWith(o.mimeType, "image/"))
      htmlIt == FindIf(v, LAMBDA o : o.mimeType = "text/html")
  IN IF imageIt # 0
     THEN [found |-> TRUE, data |-> v[imageIt].data, mime |-> v[imageIt].mimeType]
     ELSE IF plainIt # 0
          THEN [found |-> TRUE, data |-> v[plainIt].data, mime |-> "text/plain"]
     ELSE IF htmlIt # 0
          THEN [found |-> TRUE, data |-> ToPlainText(v[htmlIt].data), mime |-> "text/plain"]
     ELSE [found |-> FALSE, data |-> <<>>, mime |-> ""]

\* the choice of the offer to persist: text/plain, then image/*, then text/html
\* converted to plain text; index 0 stands for end()
Representative(v) ==
  LET plainIt == FindIf(v, LAMBDA o : o.mimeType = "text/plain")
      imageIt == FindIf(v, LAMBDA o : StartsWith(o.mimeType, "image/"))
      htmlIt == FindIf(v, LAMBDA o : o.mimeType = "text/html")
  IN IF plainIt # 0 THEN [found |-> TRUE, data |-> v[plainIt].data, mime |-> "text/plain"]
     ELSE IF imageIt # 0
          THEN [found |-> TRUE, data |-> v[imageIt].data, mime |-> v[imageIt].mimeType]
     ELSE IF htmlIt # 0
          THEN [found |-> TRUE, data |-> ToPlainText(v[htmlIt].data), mime |-> "text/plain"]
     ELSE [found |-> FALSE, data |-> <<>>, mime |-> ""]

\* saveSelection between the gate and the transaction: which way the offers
\* of the capture go, and what is handed to the store
ClassifyOffers(sel) ==
  LET v == Unique(EraseEmpty(sel))
      rep == Representative(v)
  IN IF isClearSelection(v) THEN [branch |-> "clear", data |-> <<>>, mime |-> ""]
     ELSE IF isConcealed(v) THEN [branch |-> "concealed", data |-> <<>>, mime |-> ""]
     ELSE IF ~rep.found THEN [branch |-> "unsupported", data |-> <<>>, mime |-> ""]
     ELSE [branch |-> "persist", data |-> rep.data, mime |-> rep.mime]

Classify(monitoring, ready, sel) ==
  IF ~GateOpen(monitoring, ready) THEN [branch |-> "gate", data |-> <<>>, mime |-> ""]
  ELSE ClassifyOffers(sel)

\* saveSelection reads its argument only through isConcealed and ClassifyOffers:
\* one capture for each distinct pair of the two stands for all with that pair
CaptureClass(sel) == <<isConcealed(sel), ClassifyOffers(sel)>>
CaptureReps ==
  {CHOOSE sel \in Captures : CaptureClass(sel) = k : k \in {CaptureClass(sel) : sel \in Captures}}

selectionHash(offerData) == Md5Hex(offerData)

\* ClipboardDatabase::tryBubbleUpSelection: is there a selection with this hash
HasHash(sels, hash) == \E s \in DOMAIN sels : sels[s].hash = hash

\* ClipboardDatabase::tryBubbleUpSelection: the matching selection becomes the
\* most recent one
BubbleUp(sels, ord, hash) ==
  SelectSeq(ord, LAMBDA s : sels[s].hash = hash) \o SelectSeq(ord, LAMBDA s : sels[s].hash # hash)

\* a lookup that hits whenever the table holds a row
DedupHitAnyRow(sels, hash) == DOMAIN sels # {}

\* a persist that never looks for the hash
DedupHitNever(sels, hash) == FALSE

\* a lookup whose comparison is inverted: it hits on a row with another hash
DedupHitInverted(sels, hash) == \E s \in DOMAIN sels : sels[s].hash # hash

\* if (db.tryBubbleUpSelection(selectionHash)) return true;
DedupHit(sels, hash) == HasHash(sels, hash)

\* the marker of the offer: Local exactly when the in-process key is present
EncryptionType(key) == IF key # NoKey THEN "Local" ELSE "None"

\* what targetFile.write is given
BlobBytes(offerData, key) == IF key # NoKey THEN Encrypt(offerData, key) ELSE offerData

Failures == {"none", "insertSelection", "index", "insertOffer", "open", "write"}

EmptyEntry == [id |-> NoId, mimeType |-> "", md5sum |-> <<>>, textPreview |-> <<>>]

SelectionIdOf(n) == 2 * n + 1
OfferIdOf(n) == 2 * n + 2

\* the body of the transaction of saveSelection, for the n-th pair of fresh
\* UUIDs; fail names the step the environment makes fail.  The result of
\* insertOffer is not looked at and neither is the result of write.
PersistBody(db, files, key, n, mime, data, fail) ==
  LET hash == selectionHash(data)
      selectionId == SelectionIdOf(n)
      offerId == OfferIdOf(n)
      kind == getKind([mimeType |-> mime, data |-> data])
      textPreview == getOfferTextPreview([mimeType |-> mime, data |-> data])
      md5sum == Md5Hex(data)
      indexed == kind \in {"Text", "Link"}
      selRow == [hash |-> hash, offerCount |-> 1, preferredMimeType |-> mime,
                 kind |-> kind, indexed |-> indexed, pinned |-> FALSE]
      offRow == [selectionId |-> selectionId, mimeType |-> mime, textPreview |-> textPreview,
                 md5sum |-> md5sum, encryption |-> EncryptionType(key), size |-> Len(data)]
      db1 == [db EXCEPT !.selections = @ @@ (selectionId :> selRow),
                        !.order = <<selectionId>> \o @]
      db2 == IF fail = "insertOffer" THEN db1
             ELSE [db1 EXCEPT !.offers = @ @@ (offerId :> offRow)]
      written == IF fail = "write" THEN <<>> ELSE BlobBytes(data, key)
      Abort(d) == [ok |-> FALSE, branch |-> "abort", db |-> d, files |-> files,
                   entry |-> EmptyEntry, fresh |-> FALSE, failed |-> fail]
  IN IF DedupHit(db.selections, hash)
     THEN [ok |-> TRUE, branch |-> "bubble",
           db |-> [db EXCEPT !.order = BubbleUp(db.selections, db.order, hash)],
           files |-> files, entry |-> EmptyEntry, fresh |-> FALSE, failed |-> "none"]
     ELSE IF fail = "insertSelection" THEN Abort(db)
     ELSE IF indexed /\ fail = "index" THEN Abort(db1)
     ELSE IF fail = "open" THEN Abort(db2)
     ELSE [ok |-> TRUE, branch |-> "insert", db |-> db2,
           files |-> files @@ (offerId :> written),
           entry |-> [id |-> selectionId, mimeType |-> mime, md5sum |-> md5sum,
                      textPreview |-> textPreview],
           fresh |-> TRUE,
           failed |-> IF fail \in {"insertOffer", "write"} THEN fail ELSE "none"]

\* ClipboardDatabase::transaction: the changes of the body are kept when it
\* returns true and rolled back when it returns false
Transaction(db, r) == IF r.ok THEN r.db ELSE db

\* ------------------------------------------------------------------ handlers

Event(sig, id, entry, flag) == [sig |-> sig, id |-> id, entry |-> entry, flag |-> flag]

Call(op, branch, concealed, fail, mime, data, id, emitted) ==
  [op |-> op, branch |-> branch, concealed |-> concealed, fail |-> fail, mime |-> mime,
   data |-> data, id |-> id, emitted |-> emitted, arg |-> <<>>, returned |-> <<>>,
   steps |-> <<>>]

\* a call of a function with a return value: its argument and what it returned
Returning(call, arg, returned) == [call EXCEPT !.arg = arg, !.returned = returned]

\* the calls the body of the transaction makes before it returns, in order
BodySteps(r, mime, data) ==
  LET indexed == getKind([mimeType |-> mime, data |-> data]) \in {"Text", "Link"}
      index == IF indexed THEN <<"indexSelectionContent">> ELSE <<>>
  IN IF r.branch = "bubble" THEN <<"tryBubbleUpSelection">>
     ELSE IF r.failed = "insertSelection" THEN <<"tryBubbleUpSelection", "insertSelection">>
     ELSE IF r.failed = "index" THEN <<"tryBubbleUpSelection", "insertSelection">> \o index
     ELSE IF r.failed = "open"
          THEN <<"tryBubbleUpSelection", "insertSelection">> \o index \o <<"insertOffer", "open">>
     ELSE <<"tryBubbleUpSelection", "insertSelection">> \o index
            \o <<"insertOffer", "open", "write">>

\* how the transaction ended
TransactionEnd(r) == IF r.ok THEN "commit" ELSE "rollback"

\* a handler that emits from inside the body of the transaction
HandlerOrderEmitInside(r, mime, data, events) ==
  <<"begin">> \o BodySteps(r, mime, data) \o [i \in 1..Len(events) |-> "emit"]
    \o <<TransactionEnd(r)>>

\* what saveSelection does from cdb.transaction on, in order: the transaction
\* with its body, then the emit
HandlerOrder(r, mime, data, events) ==
  <<"begin">> \o BodySteps(r, mime, data) \o <<TransactionEnd(r)>>
    \o [i \in 1..Len(events) |-> "emit"]

\* void ClipboardService::saveSelection(ClipboardSelection selection), the slot
\* of AbstractClipboardServer::selectionAdded; source: where the selection
\* came from (<<>>: another application)
SaveSelectionFrom(sel, source) ==
  LET c == Classify(m_monitoring, m_isEncryptionReady, sel)
      db == [selections |-> selections, offers |-> offers, order |-> order]
  IN IF c.branch # "persist"
     THEN /\ last' = [Call("saveSelection", c.branch, isConcealed(sel), "none", "", <<>>,
                           NoId, <<>>)
                      EXCEPT !.arg = source]
          /\ UNCHANGED <<m_monitoring, keyVars, storeVars>>
     ELSE \E fail \in Failures :
            LET r == PersistBody(db, blobs, m_localEncryptionKey, uuids, c.mime, c.data, fail)
                after == Transaction(db, r)
            IN /\ r.failed = fail
               /\ r.fresh => uuids < MaxInserts
               /\ selections' = after.selections
               /\ offers' = after.offers
               /\ order' = after.order
               /\ blobs' = r.files
               /\ uuids' = IF r.fresh THEN uuids + 1 ELSE uuids
               /\ last' = [Call("saveSelection", r.branch, isConcealed(sel), fail, c.mime,
                                c.data, r.entry.id,
                                <<Event("itemInserted", r.entry.id, r.entry, FALSE)>>)
                           EXCEPT !.steps =
                             HandlerOrder(r, c.mime, c.data,
                                          <<Event("itemInserted", r.entry.id, r.entry, FALSE)>>),
                                  !.arg = source]
               /\ UNCHANGED <<m_monitoring, keyVars>>

\* saveSelection for a selection of another application
SaveSelection(sel) == SaveSelectionFrom(sel, <<>>)

\* void ClipboardService::setMonitoring(bool value)
SetMonitoring(value) ==
  /\ m_monitoring' = value
  /\ last' = Call("setMonitoring", "", FALSE, "none", "", <<>>, NoId,
                  <<Event("monitoringChanged", NoId, EmptyEntry, value)>>)
  /\ UNCHANGED <<keyVars, storeVars>>

SelectionIds == {SelectionIdOf(n) : n \in 0..(MaxInserts - 1)}
OfferIds == {OfferIdOf(n) : n \in 0..(MaxInserts - 1)}

\* ClipboardDatabase::removeSelection: the offer ids of the removed selection
OffersOf(offs, selectionId) == {o \in DOMAIN offs : offs[o].selectionId = selectionId}

Restrict(f, S) == [x \in S |-> f[x]]

EmptyTable == [x \in {} |-> x]

\* the elements of a finite set of numbers, in increasing order
RECURSIVE SortedSeq(_)
SortedSeq(S) ==
  IF S = {} THEN <<>>
  ELSE LET m == CHOOSE x \in S : \A y \in S : x <= y
       IN <<m>> \o SortedSeq(S \ {m})

\* a removal that deletes no file
RemoveFilesNone(files, removed) == files

\* for (offer : cdb.removeSelection(selectionId)) fs::remove(m_dataDir / offer)
RemoveFiles(files, removed) == Restrict(files, DOMAIN files \ removed)

\* bool ClipboardService::removeSelection(const QString &selectionId)
RemoveSelection(selectionId) ==
  LET removed == OffersOf(offers, selectionId)
  IN /\ selections' = Restrict(selections, DOMAIN selections \ {selectionId})
     /\ offers' = Restrict(offers, DOMAIN offers \ removed)
     /\ order' = SelectSeq(order, LAMBDA s : s # selectionId)
     /\ blobs' = RemoveFiles(blobs, removed)
     /\ last' = Returning(Call("removeSelection", "", FALSE, "none", "", <<>>, selectionId,
                                <<Event("selectionRemoved", selectionId, EmptyEntry, FALSE)>>),
                           <<>>, SortedSeq(removed))
     /\ UNCHANGED <<m_monitoring, keyVars, uuids>>

\* a clearing that leaves the files of the blob directory in place
RemoveAllFilesKept(files) == files

\* fs::remove_all(m_dataDir); fs::create_directories(m_dataDir): the directory
\* exists again and holds no file
RemoveAllFiles(files) == EmptyTable

\* bool ClipboardService::removeAllSelections(); ok: ClipboardDatabase::removeAll
RemoveAllSelections(ok) ==
  /\ IF ok
     THEN /\ selections' = EmptyTable
          /\ offers' = EmptyTable
          /\ order' = <<>>
          /\ blobs' = RemoveAllFiles(blobs)
          /\ last' = Returning(Call("removeAllSelections", "removed", FALSE, "none", "",
                                     <<>>, NoId,
                                     <<Event("allSelectionsRemoved", NoId, EmptyEntry, FALSE)>>),
                                SortedSeq(DOMAIN blobs), <<TRUE>>)
     ELSE /\ UNCHANGED <<selections, offers, order, blobs>>
          /\ last' = Returning(Call("removeAllSelections", "failed", FALSE, "removeAll", "",
                                     <<>>, NoId, <<>>),
                                SortedSeq(DOMAIN blobs), <<FALSE>>)
  /\ UNCHANGED <<m_monitoring, keyVars, uuids>>

\* ClipboardDatabase::setPinned: the row is updated when it exists and the
\* statement ran (ok); the result tells whether a row was updated
SetPinnedRow(sels, id, pinned, ok) ==
  IF ok /\ id \in DOMAIN sels
  THEN [updated |-> TRUE, sels |-> [sels EXCEPT ![id].pinned = pinned]]
  ELSE [updated |-> FALSE, sels |-> sels]

\* a setPinned that announces the change whatever the store reported
PinOutcomeAlwaysEmits(updated, id, pinned) ==
  [ret |-> updated, emitted |-> <<Event("selectionPinStatusChanged", id, EmptyEntry, pinned)>>]

\* setPinned after the store call: false and no signal when no row was
\* updated, the signal and true otherwise
PinOutcome(updated, id, pinned) ==
  IF ~updated THEN [ret |-> FALSE, emitted |-> <<>>]
  ELSE [ret |-> TRUE,
        emitted |-> <<Event("selectionPinStatusChanged", id, EmptyEntry, pinned)>>]

\* bool ClipboardService::setPinned(const QString id, bool pinned)
SetPinned(id, pinned, ok) ==
  LET r == SetPinnedRow(selections, id, pinned, ok)
      out == PinOutcome(r.updated, id, pinned)
  IN /\ selections' = r.sels
     /\ last' = Returning(Call("setPinned", IF r.updated THEN "updated" ELSE "missing",
                                FALSE, IF ok THEN "none" ELSE "setPinned", "", <<>>, id,
                                out.emitted),
                           <<pinned>>, <<out.ret>>)
     /\ UNCHANGED <<m_monitoring, keyVars, offers, order, blobs, uuids>>

\* ClipboardDatabase::findSelection: the offer rows of the selection, in
\* stored order
FindSelectionOffers(offs, id) == SortedSeq(OffersOf(offs, id))

\* a decryption that hands back the file bytes as they are
decryptOfferRaw(data, enc, key) == data

\* QByteArray ClipboardService::decryptOffer(data, enc) const, key being
\* m_localEncryptionKey
decryptOffer(data, enc, key) ==
  CASE enc = "None" -> data
    [] enc = "Local" -> IF key = NoKey THEN <<>> ELSE Decrypt(data, key)
    [] OTHER -> <<>>

\* an open that never fails
CanOpenAlways(files, unreadable, o) == TRUE

\* file.open(QIODevice::ReadOnly): the file exists and the system lets it be
\* read
CanOpen(files, unreadable, o) == o \in DOMAIN files /\ o \notin unreadable

\* file.readAll()
ReadAll(files, o) == IF o \in DOMAIN files THEN files[o] ELSE <<>>

\* the loop of retrieveSelectionById over selection->offers
RECURSIVE PopulateOffers(_, _, _, _, _)
PopulateOffers(ids, offs, files, unreadable, key) ==
  IF ids = <<>> THEN <<>>
  ELSE LET o == Head(ids)
           rest == PopulateOffers(Tail(ids), offs, files, unreadable, key)
       IN IF ~CanOpen(files, unreadable, o) THEN rest
          ELSE <<[mimeType |-> offs[o].mimeType,
                  data |-> decryptOffer(ReadAll(files, o), offs[o].encryption, key)]>> \o rest

\* std::optional<ClipboardSelection> ClipboardService::retrieveSelectionById(id);
\* unreadable: the blob files the system refuses to open
RetrieveSelectionById(id, unreadable) ==
  LET found == id \in DOMAIN selections
      populated == PopulateOffers(FindSelectionOffers(offers, id), offers, blobs,
                                  unreadable, m_localEncryptionKey)
  IN /\ unreadable \subseteq OffersOf(offers, id)
     /\ last' = Returning(Call("retrieveSelectionById",
                                IF found THEN "found" ELSE "notFound", FALSE, "none", "",
                                <<>>, id, <<>>),
                           SortedSeq(unreadable), IF found THEN populated ELSE <<>>)
     /\ UNCHANGED <<m_monitoring, keyVars, storeVars>>

\* ------------------------------------------------------------------ copying

\* the bytes of the concealed marker: "1"
ConcealedMarker == <<"1">>

\* QMimeData::setData(format, data): the data of the format is replaced, or
\* the format is added after the others
SetData(mimeData, format, data) ==
  IF \E i \in 1..Len(mimeData) : mimeData[i].mimeType = format
  THEN [i \in 1..Len(mimeData) |->
          IF mimeData[i].mimeType = format THEN [mimeType |-> format, data |-> data]
          ELSE mimeData[i]]
  ELSE Append(mimeData, [mimeType |-> format, data |-> data])

\* a copy that sets the marker with no bytes
copyQMimeDataEmptyMarker(data, concealed) ==
  IF concealed THEN SetData(data, CONCEALED_MIME_TYPE, <<>>) ELSE data

\* bool ClipboardService::copyQMimeData(data, options): the mime data handed
\* to QClipboard::setMimeData
copyQMimeData(data, concealed) ==
  IF concealed THEN SetData(data, CONCEALED_MIME_TYPE, ConcealedMarker) ELSE data

\* bool ClipboardService::copyText(text, options): the mime data handed to
\* QClipboard::setMimeData
copyText(text, concealed) ==
  LET mimeData == SetData(<<>>, "text/plain", text)
  IN IF concealed THEN SetData(mimeData, CONCEALED_MIME_TYPE, ConcealedMarker) ELSE mimeData

\* bool ClipboardService::copyHtml(data, options); hasText: data.text holds a
\* value
copyHtml(html, hasText, text, concealed) ==
  LET mimeData == SetData(<<>>, "text/html", html)
  IN copyQMimeData(IF hasText THEN SetData(mimeData, "text/plain", text) ELSE mimeData,
                   concealed)

\* bool ClipboardService::copyFile(path, options) for a file that opened; mime:
\* what the mime database says of the file
copyFile(mime, bytes, concealed) == copyQMimeData(SetData(<<>>, mime, bytes), concealed)

\* the loop of copySelection: setData for each offer
RECURSIVE SetAll(_, _)
SetAll(mimeData, v) ==
  IF v = <<>> THEN mimeData
  ELSE SetAll(SetData(mimeData, Head(v).mimeType, Head(v).data), Tail(v))

\* bool ClipboardService::copySelection(selection, options) for a selection
\* with offers
copySelection(sel, concealed) == copyQMimeData(SetAll(<<>>, sel), concealed)

CopyOps == {"copyText", "copyHtml", "copyFile", "copySelection"}

\* a copy function has run: what it placed on the clipboard, if anything, and
\* what it returned
Copied(op, concealed, placed, mimeData) ==
  /\ last' = Returning(Call(op, IF placed THEN "copied" ELSE "failed", concealed, "none", "",
                             <<>>, NoId, <<>>),
                        <<placed>>, IF placed THEN mimeData ELSE <<>>)
  /\ UNCHANGED <<m_monitoring, keyVars, storeVars>>

CopyText(text, concealed) == Copied("copyText", concealed, TRUE, copyText(text, concealed))

CopyHtml(html, hasText, text, concealed) ==
  Copied("copyHtml", concealed, TRUE, copyHtml(html, hasText, text, concealed))

\* opened: file.open(QIODevice::ReadOnly)
CopyFile(mime, bytes, opened, concealed) ==
  Copied("copyFile", concealed, opened, copyFile(mime, bytes, concealed))

CopySelection(sel, concealed) ==
  Copied("copySelection", concealed, sel # <<>>, copySelection(sel, concealed))

\* the capture source delivers what the service has just placed on the
\* clipboard: the signal selectionAdded with those offers
SelectionAdded ==
  /\ last.op \in CopyOps
  /\ last.branch = "copied"
  /\ SaveSelectionFrom(last.returned, <<last.op, last.concealed>>)

\* ClipboardOfferKind ClipboardService::getKind(offer), called on its own
GetKind(offer) ==
  /\ last' = Returning(Call("getKind", "", FALSE, "none", offer.mimeType, offer.data, NoId,
                             <<>>),
                        <<offer>>, <<getKind(offer)>>)
  /\ UNCHANGED <<m_monitoring, keyVars, storeVars>>

\* QString ClipboardService::getSelectionPreferredMimeType(selection), called on
\* its own
GetSelectionPreferredMimeType(sel) ==
  /\ last' = Returning(Call("getSelectionPreferredMimeType", "", FALSE, "none", "", <<>>,
                             NoId, <<>>),
                        sel, <<getSelectionPreferredMimeType(sel)>>)
  /\ UNCHANGED <<m_monitoring, keyVars, storeVars>>

\* ------------------------------------------------------------------ key acquisition

\* Crypto::AES256GCM::generateKey in the call of caller c: a fresh random key
GenerateKey(c) == "K" \o ToString(c)

Callers == 1..MaxCallers
\* the caller whose future the constructor watches
Ctor == 1

IdleCall == [pc |-> "idle", error |-> "", keyData |-> NoKey, ok |-> FALSE, value |-> NoKey]

\* getLocalEncryptionKey up to the return of the future: the read job is started
StartedCall == [IdleCall EXCEPT !.pc = "reading"]

\* QFuture<...> ClipboardService::getLocalEncryptionKey(), called once more
GetLocalEncryptionKey(c) ==
  /\ c \in DOMAIN keyCalls
  /\ keyCalls[c].pc = "idle"
  /\ keyCalls' = [keyCalls EXCEPT ![c] = StartedCall]
  /\ last' = Call("getLocalEncryptionKey", "", FALSE, "none", "", <<>>, c, <<>>)
  /\ UNCHANGED <<m_monitoring, m_isEncryptionReady, m_localEncryptionKey, vault, storeVars>>

\* readJob->error() == QKeychain::NoError
ReadSucceeded(error) == error = "NoError"

\* the errors a read of the keychain may end with, given what the vault holds
ReadErrors(v) == IF v = NoKey THEN {"EntryNotFound", "OtherError"}
                 ELSE {"NoError", "OtherError"}

\* the slot of ReadPasswordJob::finished
ReadJobFinished(c, error) ==
  /\ c \in DOMAIN keyCalls
  /\ keyCalls[c].pc = "reading"
  /\ error \in ReadErrors(vault)
  /\ IF ReadSucceeded(error)
     THEN keyCalls' = [keyCalls EXCEPT ![c] = [pc |-> "finished", error |-> error,
                                               keyData |-> NoKey, ok |-> TRUE,
                                               value |-> vault]]
     ELSE keyCalls' = [keyCalls EXCEPT ![c] = [pc |-> "writing", error |-> error,
                                               keyData |-> GenerateKey(c), ok |-> FALSE,
                                               value |-> NoKey]]
  /\ last' = Call("readJobFinished", error, FALSE, "none", "", <<>>, c, <<>>)
  /\ UNCHANGED <<m_monitoring, m_isEncryptionReady, m_localEncryptionKey, vault, storeVars>>

\* the write job and the slot of WritePasswordJob::finished
WriteJobFinished(c, error) ==
  /\ c \in DOMAIN keyCalls
  /\ keyCalls[c].pc = "writing"
  /\ IF error = "NoError"
     THEN /\ vault' = keyCalls[c].keyData
          /\ keyCalls' = [keyCalls EXCEPT ![c] = [@ EXCEPT !.pc = "finished", !.ok = TRUE,
                                                            !.value = keyCalls[c].keyData]]
     ELSE /\ vault' = vault
          /\ keyCalls' = [keyCalls EXCEPT ![c] = [@ EXCEPT !.pc = "finished", !.ok = FALSE]]
  /\ last' = Call("writeJobFinished", error, FALSE, "none", "", <<>>, c, <<>>)
  /\ UNCHANGED <<m_monitoring, m_isEncryptionReady, m_localEncryptionKey, storeVars>>

\* a slot that keeps the key it is given but leaves the readiness unresolved
\* when there is one
OnKeyResolvedKeyWithoutReady(key, res) ==
  [key |-> IF res.ok THEN res.value ELSE key, ready |-> ~res.ok]

\* a slot that resolves the readiness only when a key was obtained
OnKeyResolvedOnlyWithKey(key, res) ==
  [key |-> IF res.ok THEN res.value ELSE key, ready |-> res.ok]

\* the slot of QFutureWatcher::finished in the constructor: the new
\* m_localEncryptionKey and m_isEncryptionReady
OnKeyResolved(key, res) ==
  [key |-> IF res.ok THEN res.value ELSE key, ready |-> TRUE]

WatcherFinished ==
  /\ keyCalls[Ctor].pc = "finished"
  /\ LET r == OnKeyResolved(m_localEncryptionKey, keyCalls[Ctor])
     IN /\ m_localEncryptionKey' = r.key
        /\ m_isEncryptionReady' = r.ready
  /\ keyCalls' = [keyCalls EXCEPT ![Ctor].pc = "delivered", ![Ctor].error = "",
                                  ![Ctor].keyData = NoKey]
  /\ last' = Call("watcherFinished", "", FALSE, "none", "", <<>>, Ctor, <<>>)
  /\ UNCHANGED <<m_monitoring, vault, storeVars>>

\* ------------------------------------------------------------------ specifications

NoCall == Call("init", "", FALSE, "none", "", <<>>, NoId, <<>>)

\* the state the constructor leaves on the first start: the keychain holds no
\* key yet, the blob directory exists, the tables are migrated and empty, the
\* key is being read from the keychain
Init ==
  /\ m_monitoring \in BOOLEAN
  /\ m_isEncryptionReady = FALSE
  /\ m_localEncryptionKey = NoKey
  /\ vault = NoKey
  /\ keyCalls = (Ctor :> StartedCall)
  /\ selections = EmptyTable
  /\ offers = EmptyTable
  /\ order = <<>>
  /\ blobs = EmptyTable
  /\ uuids = 0
  /\ last = NoCall

Next ==
  \/ \E sel \in CaptureReps : SaveSelection(sel)
  \/ \E value \in BOOLEAN : SetMonitoring(value)
  \/ \E id \in SelectionIds : RemoveSelection(id)
  \/ \E ok \in BOOLEAN : RemoveAllSelections(ok)
  \/ \E id \in SelectionIds, unreadable \in SUBSET OfferIds : RetrieveSelectionById(id, unreadable)
  \/ \E error \in {"NoError", "EntryNotFound", "OtherError"} : ReadJobFinished(Ctor, error)
  \/ \E error \in {"NoError", "OtherError"} : WriteJobFinished(Ctor, error)
  \/ WatcherFinished

Spec == Init /\ [][Next]_vars

\* the captures of the pinning scenario: a text and an image
PinCaptures ==
  {<<[mimeType |-> "text/plain", data |-> <<"http:", "a">>]>>,
   <<[mimeType |-> "image/png", data |-> <<"<b>", "http:", "a">>]>>}

\* the history with pinning: captures, pin changes and removals while the key
\* is acquired
NextPin ==
  \/ \E sel \in PinCaptures : SaveSelection(sel)
  \/ \E id \in SelectionIds, pinned \in BOOLEAN, ok \in BOOLEAN : SetPinned(id, pinned, ok)
  \/ \E id \in SelectionIds : RemoveSelection(id)
  \/ \E error \in {"NoError", "EntryNotFound", "OtherError"} : ReadJobFinished(Ctor, error)
  \/ \E error \in {"NoError", "OtherError"} : WriteJobFinished(Ctor, error)
  \/ WatcherFinished

SpecPin == Init /\ [][NextPin]_vars

\* the offers getKind is applied to
KindMimeTypes == TextMimes \cup ImageMimes \cup ApplicationMimes \cup {CONCEALED_MIME_TYPE}
KindOffers == [mimeType : KindMimeTypes, data : Payloads]

\* the selections getSelectionPreferredMimeType is applied to: the payload
\* plays no part in the ranking
RankedMimeTypes ==
  {"text/_moz_htmlcontext", "text/html", "text/plain", "text/uri-list", "text/svg",
   "image/gif", "image/jpeg", "image/png", "image/svg+xml", "application/json"}
RankedSelections == SeqsUpTo([mimeType : RankedMimeTypes, data : {<<"a">>}], MaxOffers)

\* the functions on offers, applied to every offer and selection of the
\* bounded sets
NextPure ==
  \/ \E offer \in KindOffers : GetKind(offer)
  \/ \E sel \in RankedSelections : GetSelectionPreferredMimeType(sel)

SpecPure == Init /\ [][NextPure]_vars

\* what the copy functions are given
CopiedTexts == {<<>>, <<"http:", "a">>}
CopiedFiles == [mimeType : {"image/png", "application/json"}, data : {<<"http:", "a">>}]
CopiedSelections ==
  {<<>>,
   <<[mimeType |-> "text/plain", data |-> <<"http:", "a">>]>>,
   <<[mimeType |-> CONCEALED_MIME_TYPE, data |-> <<>>],
     [mimeType |-> "image/png", data |-> <<"<b>", "http:", "a">>]>>}

\* the service copies and the capture source hands the copy back, while the
\* key is acquired
NextCopy ==
  \/ \E text \in CopiedTexts, concealed \in BOOLEAN : CopyText(text, concealed)
  \/ \E html \in {<<"<b>", "http:", "a">>}, hasText \in BOOLEAN, text \in {<<"http:", "a">>},
        concealed \in BOOLEAN : CopyHtml(html, hasText, text, concealed)
  \/ \E file \in CopiedFiles, opened \in BOOLEAN, concealed \in BOOLEAN :
        CopyFile(file.mimeType, file.data, opened, concealed)
  \/ \E sel \in CopiedSelections, concealed \in BOOLEAN : CopySelection(sel, concealed)
  \/ SelectionAdded
  \/ \E error \in {"NoError", "EntryNotFound", "OtherError"} : ReadJobFinished(Ctor, error)
  \/ \E error \in {"NoError", "OtherError"} : WriteJobFinished(Ctor, error)
  \/ WatcherFinished

SpecCopy == Init /\ [][NextCopy]_vars

\* the state after construction in a later run of the program: the database
\* and the blob files hold what a run before it recorded, with the key it had,
\* and the vault holds that key; the members of the new object are those of
\* Init
InitRestart ==
  /\ m_monitoring \in BOOLEAN
  /\ m_isEncryptionReady = FALSE
  /\ m_localEncryptionKey = NoKey
  /\ keyCalls = (Ctor :> StartedCall)
  /\ last = NoCall
  /\ \E sel \in PinCaptures, previous \in {NoKey, OldKey}, fail \in {"none", "write"} :
       LET c == Classify(TRUE, TRUE, sel)
           r == PersistBody([selections |-> EmptyTable, offers |-> EmptyTable,
                             order |-> <<>>],
                            EmptyTable, previous, 0, c.mime, c.data, fail)
       IN /\ vault = previous
          /\ selections = r.db.selections
          /\ offers = r.db.offers
          /\ order = r.db.order
          /\ blobs = r.files
          /\ uuids = 1

\* captures and retrievals of a later run while its key is acquired
NextRestart ==
  \/ \E sel \in PinCaptures : SaveSelection(sel)
  \/ \E id \in SelectionIds, unreadable \in SUBSET OfferIds : RetrieveSelectionById(id, unreadable)
  \/ \E error \in {"NoError", "EntryNotFound", "OtherError"} : ReadJobFinished(Ctor, error)
  \/ \E error \in {"NoError", "OtherError"} : WriteJobFinished(Ctor, error)
  \/ WatcherFinished

SpecRestart == InitRestart /\ [][NextRestart]_vars

\* the key acquisition alone: several in-process calls of
\* getLocalEncryptionKey, against a keychain with or without a key
InitKey ==
  /\ m_monitoring = FALSE
  /\ m_isEncryptionReady = FALSE
  /\ m_localEncryptionKey = NoKey
  /\ vault \in {NoKey, OldKey}
  /\ keyCalls = [c \in Callers |-> IF c = Ctor THEN StartedCall ELSE IdleCall]
  /\ selections = EmptyTable
  /\ offers = EmptyTable
  /\ order = <<>>
  /\ blobs = EmptyTable
  /\ uuids = 0
  /\ last = NoCall

NextKey ==
  \/ \E c \in Callers : GetLocalEncryptionKey(c)
  \/ \E c \in Callers, error \in {"NoError", "EntryNotFound", "OtherError"} :
        ReadJobFinished(c, error)
  \/ \E c \in Callers, error \in {"NoError", "OtherError"} : WriteJobFinished(c, error)
  \/ WatcherFinished

SpecKey == InitKey /\ [][NextKey]_vars

\* ------------------------------------------------------------------ properties

StoreUnchanged == UNCHANGED <<selections, offers, order, blobs>>

WithHash(sels, hash) == {s \in DOMAIN sels : sels[s].hash = hash}

\* no two stored selections share a content hash
HashUnique ==
  \A s, t \in DOMAIN selections : selections[s].hash = selections[t].hash => s = t

\* the last handler was a saveSelection that reached the transaction
Persisting(call) == call.op = "saveSelection" /\ call.branch \in {"bubble", "insert", "abort"}

\* C1: with the gate open, a capture whose representative bytes hash to a
\* selection already stored takes the bubble-up branch: no selection row, no
\* offer row and no blob file is written, the stored selection only becomes
\* the most recent one, and exactly one selection has that hash afterwards.
C1_IdempotentDedup ==
  /\ []HashUnique
  /\ [][(Persisting(last') /\ WithHash(selections, Md5Hex(last'.data)) # {})
          => /\ last'.branch = "bubble"
             /\ selections' = selections
             /\ offers' = offers
             /\ blobs' = blobs
             /\ Cardinality(WithHash(selections', Md5Hex(last'.data))) = 1
             /\ Head(order') \in WithHash(selections, Md5Hex(last'.data))
             /\ SelectSeq(order', LAMBDA s : s # Head(order'))
                  = SelectSeq(order, LAMBDA s : s # Head(order'))]_vars

\* a second capture of stored bytes bubbled up past another stored selection
C1_Witness ==
  /\ Persisting(last)
  /\ last.branch = "bubble"
  /\ Cardinality(DOMAIN selections) = 2
  /\ Cardinality(WithHash(selections, Md5Hex(last.data))) = 1
  /\ Head(order) \in WithHash(selections, Md5Hex(last.data))

\* C2: a capture in which some offer has the concealed mime type, whatever
\* its bytes, leaves the metadata store and the blob directory unchanged and
\* emits nothing.
C2_ConcealedDiscard ==
  [][(last'.op = "saveSelection" /\ last'.concealed)
      => (StoreUnchanged /\ last'.emitted = <<>>)]_vars

\* C3: saveSelection emits an insertion event only for a capture that took
\* the insert branch and committed, and the event carries the identifier and
\* the preview of the selection just stored.
C3_InsertionEventOnlyOnInsert ==
  (last.op = "saveSelection" /\ last.emitted # <<>>)
    => /\ last.branch = "insert"
       /\ Len(last.emitted) = 1
       /\ last.emitted[1].sig = "itemInserted"
       /\ last.emitted[1].entry.id \in DOMAIN selections
       /\ last.emitted[1].entry.mimeType
            = selections[last.emitted[1].entry.id].preferredMimeType

\* C4: offer rows and blob files exist together, and every offer row belongs
\* to a stored selection.
C4_CreateAtomicity ==
  /\ DOMAIN offers = DOMAIN blobs
  /\ \A o \in DOMAIN offers : offers[o].selectionId \in DOMAIN selections

\* C5: every stored selection has at least one offer row.
C5_SelectionHasOffer ==
  \A s \in DOMAIN selections : OffersOf(offers, s) # {}

KeyJobOps == {"readJobFinished", "writeJobFinished", "watcherFinished"}

\* C7: a capture delivered while monitoring is off or the key readiness is
\* unresolved changes neither the metadata store nor the blob directory and
\* emits nothing; the handlers of the key acquisition, the resolution of the
\* readiness included, persist nothing and emit nothing either.
C7_FilterGate ==
  [][/\ (last'.op = "saveSelection" /\ ~(m_monitoring /\ m_isEncryptionReady))
          => (StoreUnchanged /\ last'.emitted = <<>>)
     /\ (last'.op \in KeyJobOps) => (StoreUnchanged /\ last'.emitted = <<>>)]_vars

\* a capture was dropped with monitoring on and the readiness unresolved
C7_Witness ==
  /\ last.op = "saveSelection"
  /\ last.branch = "gate"
  /\ m_monitoring
  /\ ~m_isEncryptionReady

\* the key acquisition of the constructor ended without a key
Degraded == keyCalls[Ctor].pc = "delivered" /\ ~keyCalls[Ctor].ok

OnlyCtorCalls == \A c \in DOMAIN keyCalls : c # Ctor => keyCalls[c].pc = "idle"

\* C9: a key found in the keychain is never replaced: getLocalEncryptionKey
\* writes a generated key only when the keychain holds none.
C9_KeyNeverOverwritten ==
  [][(OnlyCtorCalls /\ OnlyCtorCalls' /\ vault # NoKey) => vault' = vault]_vars

\* the calls that have resolved, each after its read found no entry
ResolvedAfterNotFound ==
  {c \in DOMAIN keyCalls : keyCalls[c].pc = "finished" /\ keyCalls[c].ok
                              /\ keyCalls[c].error = "EntryNotFound"}

\* C10: the calls of getLocalEncryptionKey started against a keychain without
\* a key all resolve to one key, the key the keychain holds.
C10_CallsAgree ==
  \A c, d \in ResolvedAfterNotFound :
    keyCalls[c].value = keyCalls[d].value /\ keyCalls[c].value = vault

\* C11: an offer row inserted by saveSelection is marked Local exactly when
\* the in-process key is present at that moment, and its blob file then holds
\* the payload encrypted with that key; it is marked None exactly when the
\* blob file holds the raw payload; no handler (bubble-up, pin change, key
\* resolution, removal of another selection) changes the marker of a stored
\* offer row or rewrites a stored blob file.
C11_MarkerMatchesBlob ==
  [][/\ last'.op = "saveSelection"
          => \A o \in DOMAIN offers' \ DOMAIN offers :
               /\ (offers'[o].encryption = "Local") <=> (m_localEncryptionKey # NoKey)
               /\ (offers'[o].encryption = "None") <=> (m_localEncryptionKey = NoKey)
               /\ o \in DOMAIN blobs'
               /\ blobs'[o] = IF m_localEncryptionKey # NoKey
                               THEN Encrypt(last'.data, m_localEncryptionKey)
                               ELSE last'.data
     /\ \A o \in DOMAIN offers' \cap DOMAIN offers :
          offers'[o].encryption = offers[o].encryption
     /\ \A o \in DOMAIN blobs' \cap DOMAIN blobs : blobs'[o] = blobs[o]]_vars

\* C12: retrieveSelectionById of a stored selection, every blob file being
\* readable and the key being the one of the persist, returns one offer, with
\* the stored mime type and the bytes whose hash the selection row holds: the
\* representative payload that saveSelection persisted.
C12_RoundTrip ==
  (last.op = "retrieveSelectionById" /\ last.branch = "found" /\ last.arg = <<>>)
    => /\ Len(last.returned) = 1
       /\ last.returned[1].mimeType = selections[last.id].preferredMimeType
       /\ selectionHash(last.returned[1].data) = selections[last.id].hash

\* the class of the capture the last saveSelection was given (the gate open)
LastClass(call) ==
  <<call.concealed,
    [branch |-> IF Persisting(call) THEN "persist" ELSE call.branch,
     data |-> call.data, mime |-> call.mime]>>

CaptureClasses == {CaptureClass(sel) : sel \in Captures}

\* the captures of each class: saveSelection does to each of them what it does
\* to the one capture of the class that Next delivers
CapturesOfClass == [k \in CaptureClasses |-> {sel \in Captures : CaptureClass(sel) = k}]

\* the offers of a capture that hold bytes, in their order
NonEmptyOffers(sel) == SelectSeq(sel, LAMBDA o : o.data # <<>>)

\* the first index of v whose mime type is in M, or 0
FirstOfMimes(v, M) ==
  LET hits == {i \in 1..Len(v) : v[i].mimeType \in M}
  IN IF hits = {} THEN 0 ELSE CHOOSE i \in hits : \A j \in hits : i <= j

\* the representative the priority order asks for
StatedRepresentative(sel) ==
  LET v == NonEmptyOffers(sel)
      plain == FirstOfMimes(v, {"text/plain"})
      image == FirstOfMimes(v, ImageMimes)
      html == FirstOfMimes(v, {"text/html"})
  IN IF plain # 0 THEN [branch |-> "persist", data |-> v[plain].data, mime |-> "text/plain"]
     ELSE IF image # 0
          THEN [branch |-> "persist", data |-> v[image].data, mime |-> v[image].mimeType]
     ELSE IF html # 0
          THEN [branch |-> "persist", data |-> ToPlainText(v[html].data), mime |-> "text/plain"]
     ELSE [branch |-> "unsupported", data |-> <<>>, mime |-> ""]

\* the captures C13 speaks of: not concealed, some offer with bytes
Representable(sel) == ~isConcealed(sel) /\ NonEmptyOffers(sel) # <<>>

\* for each class: every capture of the class that C13 speaks of is handed to
\* the store as the priority order asks
ClassFollowsPriority ==
  [k \in CaptureClasses |->
     \A sel \in CapturesOfClass[k] : Representable(sel) => StatedRepresentative(sel) = k[2]]

\* C13: a capture that is not concealed and has an offer with bytes is
\* persisted under its first text/plain offer; without one, under its first
\* image/* offer and that offer's mime type; without one, under its first
\* text/html offer converted to plain text, as text/plain; without any of
\* the three nothing is persisted.  The inserted selection row carries that
\* mime type, the hash of those bytes and their kind.
C13_RepresentativePriority ==
  [][(last'.op = "saveSelection" /\ last'.branch # "gate")
      => /\ ClassFollowsPriority[LastClass(last')]
         /\ (last'.branch = "unsupported") => StoreUnchanged
         /\ (last'.branch = "insert" /\ ~last'.concealed)
              => /\ last'.id \in DOMAIN selections' \ DOMAIN selections
                 /\ selections'[last'.id].preferredMimeType = last'.mime
                 /\ selections'[last'.id].hash = Md5Hex(last'.data)
                 /\ selections'[last'.id].kind
                      = getKind([mimeType |-> last'.mime, data |-> last'.data])]_vars

\* a capture whose image offer comes before its text/plain offer was inserted
\* as text/plain, with kind Link for its URL bytes
C13_Witness ==
  /\ last.op = "saveSelection"
  /\ last.branch = "insert"
  /\ last.mime = "text/plain"
  /\ last.id \in DOMAIN selections
  /\ selections[last.id].kind = "Link"
  /\ \E sel \in CapturesOfClass[LastClass(last)] :
       /\ Representable(sel)
       /\ Len(sel) = 2
       /\ StartsWith(sel[1].mimeType, "image/")
       /\ sel[1].data # <<>>
       /\ sel[2] = [mimeType |-> "text/plain", data |-> last.data]

\* the capture has the offer that was handed to the store, with bytes
ChosenHasBytes(sel, handed) ==
  \E i \in 1..Len(sel) :
    /\ sel[i].data # <<>>
    /\ \/ sel[i].mimeType = handed.mime /\ sel[i].data = handed.data
       \/ sel[i].mimeType = "text/html" /\ ToPlainText(sel[i].data) = handed.data

\* for each class: the offers without bytes play no part in what is handed to
\* the store, the offer chosen has bytes, and a capture whose offers are all
\* without bytes is a clear selection
ClassIgnoresEmpty ==
  [k \in CaptureClasses |->
     \A sel \in CapturesOfClass[k] :
       /\ k[2] = CaptureClass(NonEmptyOffers(sel))[2]
       /\ (k[2].branch = "persist") => ChosenHasBytes(sel, k[2])
       /\ (NonEmptyOffers(sel) = <<>>) => k[2].branch = "clear"]

\* C14: offers without bytes are dropped before the representative is
\* chosen and are never chosen; a capture whose offers are all without bytes
\* writes no selection row, no offer row and no blob file and emits nothing.
C14_EmptyOffersDropped ==
  [][(last'.op = "saveSelection" /\ last'.branch # "gate")
      => /\ ClassIgnoresEmpty[LastClass(last')]
         /\ (last'.branch = "clear") => (StoreUnchanged /\ last'.emitted = <<>>)]_vars

\* with the gate open, a capture of offers that are all without bytes was
\* dropped while the store held a selection
C14_Witness ==
  /\ last.op = "saveSelection"
  /\ last.branch = "clear"
  /\ m_monitoring /\ m_isEncryptionReady
  /\ DOMAIN selections # {}
  /\ \E sel \in CapturesOfClass[LastClass(last)] : Len(sel) = MaxOffers

\* C15: removeSelection(id) leaves no selection row id, none of its offer
\* rows and no blob file of an offer identifier the store's removal returned;
\* the rows and blob files of the other selections stay as they are; and
\* retrieveSelectionById of an identifier without a selection row returns
\* not-found.
C15_Removal ==
  [][/\ last'.op = "removeSelection"
          => /\ last'.id \notin DOMAIN selections'
             /\ OffersOf(offers', last'.id) = {}
             /\ \A i \in 1..Len(last'.returned) :
                  /\ offers[last'.returned[i]].selectionId = last'.id
                  /\ last'.returned[i] \notin DOMAIN offers'
                  /\ last'.returned[i] \notin DOMAIN blobs'
             /\ \A s \in DOMAIN selections \ {last'.id} :
                  s \in DOMAIN selections' /\ selections'[s] = selections[s]
             /\ \A o \in DOMAIN offers \ OffersOf(offers, last'.id) :
                  o \in DOMAIN offers' /\ offers'[o] = offers[o]
             /\ \A o \in DOMAIN blobs \ OffersOf(offers, last'.id) :
                  o \in DOMAIN blobs' /\ blobs'[o] = blobs[o]
     /\ (last'.op = "retrieveSelectionById" /\ last'.id \notin DOMAIN selections)
          => (last'.branch = "notFound" /\ last'.returned = <<>>)]_vars

\* the first of two stored selections was removed with its offer row and its
\* blob file; the second is still there with its own
C15_Witness ==
  /\ last.op = "removeSelection"
  /\ last.id = SelectionIdOf(0)
  /\ last.returned = <<OfferIdOf(0)>>
  /\ SelectionIdOf(0) \notin DOMAIN selections
  /\ OfferIdOf(0) \notin DOMAIN blobs
  /\ SelectionIdOf(1) \in DOMAIN selections
  /\ OfferIdOf(1) \in DOMAIN offers \cap DOMAIN blobs

\* C16: removeAllSelections whose metadata clear succeeds leaves no selection
\* row, no offer row and an empty blob directory, emits allSelectionsRemoved
\* once and returns true; when the clear fails it returns false, leaves every
\* row and every blob file as they were and emits nothing.
C16_RemoveAll ==
  [][last'.op = "removeAllSelections"
      => IF last'.fail = "none"
         THEN /\ selections' = EmptyTable
              /\ offers' = EmptyTable
              /\ order' = <<>>
              /\ blobs' = EmptyTable
              /\ last'.emitted = <<Event("allSelectionsRemoved", NoId, EmptyEntry, FALSE)>>
              /\ last'.returned = <<TRUE>>
         ELSE /\ StoreUnchanged
              /\ last'.emitted = <<>>
              /\ last'.returned = <<FALSE>>]_vars

\* a clear that succeeded found two blob files and left none
C16_Witness ==
  /\ last.op = "removeAllSelections"
  /\ last.fail = "none"
  /\ Len(last.arg) = 2
  /\ blobs = EmptyTable
  /\ selections = EmptyTable
  /\ Len(last.emitted) = 1

\* C17: setPinned returns true and emits selectionPinStatusChanged(id,
\* pinned), once, exactly when the store updated the row, which it does for a
\* row that exists; the row then has the pin state asked for and no other row
\* changes.  For an identifier without a row it returns false, emits nothing
\* and changes no row.
C17_SetPinned ==
  [][last'.op = "setPinned"
      => LET id == last'.id
             pinned == last'.arg[1]
             signal == Event("selectionPinStatusChanged", id, EmptyEntry, pinned)
         IN /\ (last'.returned = <<TRUE>>) <=> (last'.branch = "updated")
            /\ (last'.emitted = <<signal>>) <=> (last'.branch = "updated")
            /\ (last'.returned = <<FALSE>>) <=> (last'.branch # "updated")
            /\ (last'.emitted = <<>>) <=> (last'.branch # "updated")
            /\ (last'.branch = "updated")
                 <=> (id \in DOMAIN selections /\ last'.fail = "none")
            /\ (last'.branch = "updated")
                 => selections' = [selections EXCEPT ![id].pinned = pinned]
            /\ (last'.branch # "updated") => selections' = selections
            /\ UNCHANGED <<offers, order, blobs>>]_vars

\* one of two stored selections was pinned, the other was not touched
C17_Witness ==
  /\ last.op = "setPinned"
  /\ last.branch = "updated"
  /\ last.returned = <<TRUE>>
  /\ Cardinality(DOMAIN selections) = 2
  /\ selections[last.id].pinned
  /\ \E s \in DOMAIN selections : ~selections[s].pinned

\* the offer rows of the selection whose blob file exists and can be read, in
\* stored order; unreadable: the files the system refused to open
Openable(id, unreadable) ==
  SelectSeq(SortedSeq(OffersOf(offers, id)),
            LAMBDA o : o \in DOMAIN blobs /\ \A i \in 1..Len(unreadable) : unreadable[i] # o)

StatedRank(m) ==
  CASE m = "text/html" -> 2
    [] m = "text/plain" -> 3
    [] m = "image/jpeg" -> 5
    [] m = "image/png" -> 6
    [] m = "image/svg+xml" -> 7
    [] m \in ImageMimes \ {"image/jpeg", "image/png", "image/svg+xml"} -> 4
    [] m \in TextMimes \ {"text/html", "text/plain"} -> 8
    [] OTHER -> 1

\* the mime type of the first offer of highest stated rank, the offers of the
\* mozilla-internal HTML types left out; "" when no offer is left
StatedPreferred(sel) ==
  LET ranked == {i \in 1..Len(sel) : ~StartsWithMozHtml(sel[i].mimeType)}
      best == {i \in ranked : \A j \in ranked :
                  StatedRank(sel[j].mimeType) <= StatedRank(sel[i].mimeType)}
  IN IF ranked = {} THEN ""
     ELSE sel[CHOOSE i \in best : \A j \in best : i <= j].mimeType

\* C19: getSelectionPreferredMimeType leaves out the offers of the
\* mozilla-internal HTML types and returns the mime type of the first offer of
\* the highest rank in the order Other < text/html < text/plain < generic image
\* < image/jpeg < image/png < image/svg < text other than text/plain.
C19_PreferredMimeType ==
  last.op = "getSelectionPreferredMimeType"
    => last.returned = <<StatedPreferred(last.arg)>>

\* the kind of an offer as stated, by mime type and payload
StatedKind(offer) ==
  CASE offer.mimeType \in ImageMimes -> "Image"
    [] offer.mimeType = "text/html" -> "Text"
    [] offer.mimeType \in TextMimes \ {"text/html"} ->
         IF IsUrlWithScheme(offer.data) THEN "Link" ELSE "Text"
    [] offer.mimeType \in {"application/json", "application/xml", "application/javascript",
                           "application/sql"} -> "Text"
    [] OTHER -> "Unknown"

\* C20: getKind gives Image for an image/ mime type, Text for text/html, for
\* any other text/ mime type Link when the payload is a valid URL with a
\* scheme and Text otherwise, Text for application/json, xml, javascript and
\* sql, and Unknown for every other mime type.
C20_KindInference ==
  last.op = "getKind" => last.returned = <<StatedKind(last.arg[1])>>

\* getKind was given a text/html offer whose text is a URL, and said Text
C20_Witness ==
  /\ last.op = "getKind"
  /\ last.mime = "text/html"
  /\ IsUrlWithScheme(ToPlainText(last.data))
  /\ last.returned = <<"Text">>

\* the positions of a step in the order of a call
StepsAt(call, names) == {i \in 1..Len(call.steps) : call.steps[i] \in names}

\* C21: in every saveSelection that reaches the store, the transaction has
\* ended, committed or rolled back, before the insertion event is emitted:
\* every emit comes after the one end of the transaction, none between its
\* begin and its end, and there are as many emits as emitted events.
C21_CommitBeforeNotify ==
  (last.op = "saveSelection" /\ last.emitted # <<>>)
    => /\ Cardinality(StepsAt(last, {"begin"})) = 1
       /\ Cardinality(StepsAt(last, {"commit", "rollback"})) = 1
       /\ Cardinality(StepsAt(last, {"emit"})) = Len(last.emitted)
       /\ \A b \in StepsAt(last, {"begin"}), e \in StepsAt(last, {"commit", "rollback"}),
             n \in StepsAt(last, {"emit"}) : b < e /\ e < n
       /\ ("commit" \in {last.steps[i] : i \in 1..Len(last.steps)})
            <=> (last.branch \in {"bubble", "insert"})

\* an insert wrote its blob file, committed, and then emitted itemInserted
C21_Witness ==
  /\ last.op = "saveSelection"
  /\ last.branch = "insert"
  /\ last.fail = "none"
  /\ Len(last.emitted) = 1
  /\ last.emitted[1].id \in DOMAIN selections
  /\ \E w \in StepsAt(last, {"write"}), e \in StepsAt(last, {"commit"}),
        n \in StepsAt(last, {"emit"}) : w < e /\ e < n

\* the captures persisted under a text/html offer: not concealed, no
\* text/plain offer and no image offer with bytes, a text/html offer with bytes
HtmlDerived(sel) ==
  LET v == NonEmptyOffers(sel)
  IN /\ ~isConcealed(sel)
     /\ FirstOfMimes(v, {"text/plain"}) = 0
     /\ FirstOfMimes(v, ImageMimes) = 0
     /\ FirstOfMimes(v, {"text/html"}) # 0

\* for each class: some capture of the class is persisted under a text/html
\* offer
ClassHasHtmlDerived ==
  [k \in CaptureClasses |-> \E sel \in CapturesOfClass[k] : HtmlDerived(sel)]

\* C22: a capture whose representative is a text/html offer is stored with
\* kind Text, whatever the text left after stripping its markup is.
C22_HtmlDerivedKind ==
  [][(last'.op = "saveSelection" /\ last'.branch = "insert"
        /\ ClassHasHtmlDerived[LastClass(last')])
      => selections'[last'.id].kind = "Text"]_vars

\* C23: the readiness starts unresolved, is resolved by the slot of the
\* watcher of the one key acquisition, whether it ended with a key or with an
\* error, by no other handler, and is never unresolved again; the in-process
\* key starts absent, is set by that slot only, at most once, and never
\* changes afterwards; whenever the key is present the readiness is resolved.
C23_ReadinessMonotonic ==
  /\ ~m_isEncryptionReady /\ m_localEncryptionKey = NoKey
  /\ [](m_localEncryptionKey # NoKey => m_isEncryptionReady)
  /\ [][/\ m_isEncryptionReady => m_isEncryptionReady'
        /\ (m_isEncryptionReady' # m_isEncryptionReady) => last'.op = "watcherFinished"
        /\ (last'.op = "watcherFinished") => (~m_isEncryptionReady /\ m_isEncryptionReady')
        /\ (m_localEncryptionKey' # m_localEncryptionKey)
             => (m_localEncryptionKey = NoKey /\ last'.op = "watcherFinished")
        /\ (last'.op = "watcherFinished")
             => m_localEncryptionKey' = IF keyCalls[Ctor].ok THEN keyCalls[Ctor].value
                                        ELSE NoKey]_vars

\* the key acquisition ended with a key: the slot has set it and resolved the
\* readiness, and a later capture was stored under that key
C23_Witness ==
  /\ m_isEncryptionReady
  /\ m_localEncryptionKey = GenerateKey(Ctor)
  /\ keyCalls[Ctor].pc = "delivered"
  /\ last.op = "saveSelection"
  /\ last.branch = "insert"

\* the identifiers handed out so far
IssuedSelectionIds == {SelectionIdOf(n) : n \in 0..(uuids - 1)}
IssuedOfferIds == {OfferIdOf(n) : n \in 0..(uuids - 1)}

\* C24: a capture whose representative bytes hash to no stored selection,
\* one removed by removeSelection or removeAllSelections included, never
\* bubbles up; when its persist commits it has inserted a selection row under
\* an identifier never handed out before and written a blob file under an
\* offer identifier never handed out before, and no removed row is back.
C24_CaptureAfterRemoval ==
  [][(Persisting(last') /\ WithHash(selections, Md5Hex(last'.data)) = {})
      => /\ last'.branch # "bubble"
         /\ (last'.branch = "insert")
              => /\ last'.id \notin IssuedSelectionIds
                 /\ DOMAIN selections' = DOMAIN selections \cup {last'.id}
                 /\ selections'[last'.id].hash = Md5Hex(last'.data)
                 /\ \E o \in DOMAIN blobs' \ DOMAIN blobs :
                      /\ o \notin IssuedOfferIds
                      /\ DOMAIN blobs' = DOMAIN blobs \cup {o}
                      /\ DOMAIN offers' \subseteq DOMAIN offers \cup {o}
         /\ (last'.branch = "abort") => StoreUnchanged]_vars

\* the first selection was removed and the same bytes were captured again:
\* they were inserted as a second selection, beside the blob file the first
\* one left behind with the same content
C24_Witness ==
  /\ last.op = "saveSelection"
  /\ last.branch = "insert"
  /\ last.fail = "none"
  /\ last.id = SelectionIdOf(1)
  /\ DOMAIN selections = {SelectionIdOf(1)}
  /\ DOMAIN blobs = {OfferIdOf(0), OfferIdOf(1)}
  /\ blobs[OfferIdOf(0)] = blobs[OfferIdOf(1)]
  /\ blobs[OfferIdOf(1)] # <<>>

\* C26: every stored selection has the preferred mime type text/plain or one
\* of image/, a kind among Text, Link and Image, and the kind Image exactly
\* when its preferred mime type is one of image/.
C26_StoredKindAndMime ==
  \A s \in DOMAIN selections :
    /\ selections[s].preferredMimeType = "text/plain"
         \/ selections[s].preferredMimeType \in ImageMimes
    /\ selections[s].kind \in {"Text", "Link", "Image"}
    /\ (selections[s].kind = "Image") <=> (selections[s].preferredMimeType \in ImageMimes)

\* the store holds an image selection and a link selection
C26_Witness ==
  /\ \E s \in DOMAIN selections :
       selections[s].kind = "Image" /\ selections[s].preferredMimeType = "image/png"
  /\ \E s \in DOMAIN selections :
       selections[s].kind = "Link" /\ selections[s].preferredMimeType = "text/plain"

\* C25: what copyText, copyHtml, copyFile and copySelection place on the
\* clipboard with the concealed option holds an offer of the concealed mime
\* type with bytes, and when the capture source hands that content to
\* saveSelection nothing is recorded: no row and no blob file is written or
\* changed and nothing is emitted.
C25_ConcealedCopyNotRecorded ==
  /\ []((last.op \in CopyOps /\ last.concealed /\ last.branch = "copied")
         => \E i \in 1..Len(last.returned) :
              /\ last.returned[i].mimeType = CONCEALED_MIME_TYPE
              /\ last.returned[i].data # <<>>)
  /\ [][(last.op \in CopyOps /\ last.concealed /\ last'.op = "saveSelection")
          => /\ StoreUnchanged
             /\ last'.emitted = <<>>
             /\ last'.branch \in {"gate", "concealed"}]_vars

\* with the gate open and a selection stored, a selection copied with the
\* concealed option came back from the capture source and was dropped as
\* concealed
C25_Witness ==
  /\ last.op = "saveSelection"
  /\ last.branch = "concealed"
  /\ last.arg = <<"copySelection", TRUE>>
  /\ last.emitted = <<>>
  /\ DOMAIN selections # {}

\* the bytes are ciphertext
IsCiphertext(data) == Len(data) >= 1 /\ data[1] = "#enc"

\* C27: when retrieveSelectionById finds the selection and the object holds no
\* key, every offer of it that is marked Local and whose blob file opens is in
\* the result once, with its stored mime type and no bytes, in the order of the
\* offers; and no retrieval, with or without a key, returns ciphertext.
C27_RetrievalWithoutKey ==
  /\ (last.op = "retrieveSelectionById" /\ last.branch = "found"
        /\ m_localEncryptionKey = NoKey)
       => LET opened == Openable(last.id, last.arg)
          IN /\ Len(last.returned) = Len(opened)
             /\ \A i \in 1..Len(opened) :
                  /\ last.returned[i].mimeType = offers[opened[i]].mimeType
                  /\ offers[opened[i]].encryption = "Local" => last.returned[i].data = <<>>
  /\ last.op = "retrieveSelectionById"
       => \A i \in 1..Len(last.returned) : ~IsCiphertext(last.returned[i].data)

\* the key acquisition of this run failed; a selection whose offer is marked
\* Local and whose blob holds ciphertext was retrieved, and the result is its
\* one offer with no bytes
C27_Witness ==
  /\ last.op = "retrieveSelectionById"
  /\ last.branch = "found"
  /\ m_isEncryptionReady
  /\ m_localEncryptionKey = NoKey
  /\ \E o \in OffersOf(offers, last.id) :
       /\ offers[o].encryption = "Local"
       /\ IsCiphertext(blobs[o])
       /\ last.returned = <<[mimeType |-> offers[o].mimeType, data |-> <<>>]>>

====
